---- MODULE Spec2Model ----
(***************************************************************************)
(* Model of simplesearch.py: a trie whose nodes cache one row of the       *)
(* Levenshtein matrix (Trie), and an inverted index on top of it (Index).  *)
(*                                                                         *)
(* A text is a sequence of characters; a character is a one-element name   *)
(* ("a", "B", "!", " ", ...).  Python's 0-based index i is the TLA+ index  *)
(* i + 1.  A node is identified by its position in the sequence nodes (the *)
(* root is node 1); parent = 0 is Python's None, dists = << >> is None (a  *)
(* computed row is never empty: it has len(query) + 1 >= 1 entries).       *)
(***************************************************************************)
EXTENDS Integers, Sequences, FiniteSets, TLC

VARIABLES
    nodes,          \* the Node objects of the trie, by identity
    inverted_index, \* Index.inverted_index: word -> set of documents
    documents,      \* the documents handed to Index(documents)
    query,          \* the preprocessed query of the current / last fuzzySearch
    n,              \* the n of the current / last fuzzySearch
    stack,          \* local of Trie.fuzzySearch: pending nodes
    visited,        \* local of Trie.fuzzySearch
    matching_set,   \* local of Trie.fuzzySearch, and its return value
    result,         \* the value the last public call returned
    raised,         \* the last call ended by an exception
    pc,             \* "idle", or "search" inside the loop of Trie.fuzzySearch
    trace,          \* history: the nodes whose row the current / last call computed, in order
    calls,          \* history: the number of fuzzySearch calls started
    last_op,        \* history: the public call that ran last
    widened,        \* history: the last search repeated the query of the search
                    \* right before it, with n one larger and no insert between
    prev_result,    \* history: what that earlier search returned (when widened)
    inserted        \* history: the preprocessed words handed to Trie.insert

vars == <<nodes, inverted_index, documents, query, n, stack, visited,
          matching_set, result, raised, pc, trace, calls, last_op,
          widened, prev_result, inserted>>

----------------------------------------------------------------------------
(* Bounds of the model *)

MaxNodes == 4
MaxQueryLen == 3
MaxN == 1
MaxSearches == 2
MaxIndexSearches == 1
MaxDocs == 2
MaxDocLen == 3

----------------------------------------------------------------------------
(* Characters *)

NonAscii == "e-acute"
Space == " "
Punctuation == {"!", "?"}

WordChars == {"a", "B"}
DocChars == {"a", "B", Space, NonAscii}
IndexQueryChars == {"a", "!", NonAscii}

SeqsUpTo(S, k) == UNION {[1..m -> S] : m \in 0..k}

RawWords == SeqsUpTo(WordChars, MaxNodes - 1)
RawQueries == SeqsUpTo(WordChars, MaxQueryLen)
Distances == 0..MaxN
Docs == SeqsUpTo(DocChars, MaxDocLen)
DocumentLists == SeqsUpTo(Docs, MaxDocs)
IndexQueries == SeqsUpTo(IndexQueryChars, MaxQueryLen)

Min2(x, y) == IF x <= y THEN x ELSE y
Max2(x, y) == IF x >= y THEN x ELSE y
MinOf(row) == CHOOSE m \in {row[j] : j \in DOMAIN row} : \A j \in DOMAIN row : m <= row[j]

----------------------------------------------------------------------------
(* Trie.preprocess *)

Lower(c) == CASE c = "A" -> "a" [] c = "B" -> "b" [] OTHER -> c

StripPunctuation(s) == SelectSeq(s, LAMBDA c : c \notin Punctuation)

EncodeAsciiReplace(s) == [i \in DOMAIN s |-> IF s[i] = NonAscii THEN "?" ELSE s[i]]

Preprocess(doc) ==
    EncodeAsciiReplace(StripPunctuation([i \in DOMAIN doc |-> Lower(doc[i])]))

----------------------------------------------------------------------------
(* Node, Trie.__init__, Trie.insert *)

None == << >>
Root == 1

Node(word, parent) ==
    [word |-> word, parent |-> parent, children |-> << >>,
     dists |-> None, is_word |-> FALSE]

EmptyTrie == <<Node(<< >>, 0)>>

\* node.children.get(char): the child's identity, 0 when the key is absent
ChildOf(node, char) ==
    LET S == {k \in DOMAIN node.children : node.children[k].char = char}
    IN  IF S = {} THEN 0 ELSE node.children[CHOOSE k \in S : TRUE].node

\* faulty variant, children[char] = Node(...): an existing child is replaced
SetAlways(ns, id, char, prefix) ==
    LET new == Len(ns) + 1
        S == {k \in DOMAIN ns[id].children : ns[id].children[k].char = char}
    IN  IF S = {}
        THEN Append([ns EXCEPT ![id].children = Append(@, [char |-> char, node |-> new])],
                    Node(prefix, id))
        ELSE Append([ns EXCEPT ![id].children =
                        [k \in DOMAIN @ |-> IF k \in S THEN [char |-> char, node |-> new]
                                                      ELSE @[k]]],
                    Node(prefix, id))

\* node.children.setdefault(char, Node(prefix, node)): the nodes afterwards
SetDefault(ns, id, char, prefix) ==
    IF ChildOf(ns[id], char) # 0
    THEN ns
    ELSE Append([ns EXCEPT ![id].children =
                    Append(@, [char |-> char, node |-> Len(ns) + 1])],
                Node(prefix, id))

RECURSIVE InsertLoop(_, _, _, _)
InsertLoop(ns, id, word, i) ==
    IF i > Len(word)
    THEN [ns EXCEPT ![id].is_word = TRUE]
    ELSE LET ns2 == SetDefault(ns, id, word[i], SubSeq(word, 1, i))
         IN  InsertLoop(ns2, ChildOf(ns2[id], word[i]), word, i + 1)

TrieInsert(ns, word) == InsertLoop(ns, Root, Preprocess(word), 1)

----------------------------------------------------------------------------
(* Trie.get_levenshtein_dists *)

\* the loop of lines 52-57, from Python index i up to hi (exclusive)
RECURSIVE DistsLoop(_, _, _, _, _, _)
DistsLoop(dists, prev_dists, q, char, i, hi) ==
    IF i >= hi
    THEN dists
    ELSE LET v == IF q[i + 1] = char
                  THEN prev_dists[i + 1]
                  ELSE 1 + Min2(prev_dists[i + 1], Min2(prev_dists[i + 2], dists[i + 1]))
         IN  DistsLoop([dists EXCEPT ![i + 2] = v], prev_dists, q, char, i + 1, hi)

\* faulty variant: the window starts one index late
WindowLoLate(len, k) == Max2(0, len - k)

WindowLo(len, k) == Max2(0, len - k - 1)
WindowHi(qlen, len, k) == Min2(qlen, len + k + 1)

\* faulty variant: the entries outside the window start at n, not n + 1
GetLevenshteinDistsLowSentinel(ns, id, q, k) ==
    IF ns[id].parent = 0
    THEN [j \in 1..(Len(q) + 1) |-> j - 1]
    ELSE LET len == Len(ns[id].word)
             dists == [j \in 1..(Len(q) + 1) |-> IF j = 1 THEN len ELSE k]
         IN  DistsLoop(dists, ns[ns[id].parent].dists, q, ns[id].word[len],
                       WindowLo(len, k), WindowHi(Len(q), len, k))

GetLevenshteinDists(ns, id, q, k) ==
    IF ns[id].parent = 0
    THEN [j \in 1..(Len(q) + 1) |-> j - 1]
    ELSE LET len == Len(ns[id].word)
             dists == [j \in 1..(Len(q) + 1) |-> IF j = 1 THEN len ELSE k + 1]
         IN  DistsLoop(dists, ns[ns[id].parent].dists, q, ns[id].word[len],
                       WindowLo(len, k), WindowHi(Len(q), len, k))

\* the reads of node.parent.dists fail: it is None (TypeError) or too short
\* (IndexError) for an index the loop reads
ReadFails(ns, id, q, k) ==
    /\ ns[id].parent # 0
    /\ LET len == Len(ns[id].word)
           prev_dists == ns[ns[id].parent].dists
           W == {i \in 0..(Len(q) - 1) :
                    i >= WindowLo(len, k) /\ i < WindowHi(Len(q), len, k)}
       IN  /\ W # {}
           /\ \/ prev_dists = None
              \/ \E i \in W : i + 1 > Len(prev_dists)
              \/ \E i \in W : q[i + 1] # ns[id].word[len] /\ i + 2 > Len(prev_dists)

----------------------------------------------------------------------------
(* Trie.fuzzySearch *)

\* faulty variant: every child is pushed twice
ChildIdsTwice(ns, id) ==
    [k \in DOMAIN ns[id].children |-> ns[id].children[k].node]
        \o [k \in DOMAIN ns[id].children |-> ns[id].children[k].node]

\* faulty variant: the children's children are pushed with the children
RECURSIVE GrandChildIds(_, _, _)
GrandChildIds(ns, id, k) ==
    IF k > Len(ns[id].children)
    THEN << >>
    ELSE LET c == ns[id].children[k].node
         IN  [j \in DOMAIN ns[c].children |-> ns[c].children[j].node]
                 \o GrandChildIds(ns, id, k + 1)

ChildIdsDeep(ns, id) ==
    [k \in DOMAIN ns[id].children |-> ns[id].children[k].node]
        \o GrandChildIds(ns, id, 1)

\* node.children.values(), in insertion order
ChildIds(ns, id) == [k \in DOMAIN ns[id].children |-> ns[id].children[k].node]

\* faulty variant: the position taken is treated as the top, what lies
\* above it is lost
PopTruncate(s, k) == SubSeq(s, 1, k - 1)

\* the work collection without its element at position k
Pop(s, k) == SubSeq(s, 1, k - 1) \o SubSeq(s, k + 1, Len(s))

\* faulty variant: a word matches only at distance n exactly
IsMatchExact(node, row, d) == node.is_word /\ row[Len(row)] = d

\* line 40: node.is_word and node.dists[-1] <= n
IsMatch(node, row, d) == node.is_word /\ row[Len(row)] <= d

\* line 42: min(node.dists) <= n
Promising(row, d) == MinOf(row) <= d

\* one iteration of the while loop, taking the pending node at position k
\* (stack.pop() takes k = Len(stack)); the code never adds to visited
LoopBody(st, k, q, d) ==
    LET id == st.stack[k]
        rest == Pop(st.stack, k)
    IN  IF id \in st.visited
        THEN [st EXCEPT !.stack = rest]
        ELSE IF ReadFails(st.nodes, id, q, d)
        THEN [st EXCEPT !.stack = rest, !.raised = TRUE]
        ELSE LET row == GetLevenshteinDists(st.nodes, id, q, d)
                 node == st.nodes[id]
             IN  [st EXCEPT
                    !.nodes = [@ EXCEPT ![id].dists = row],
                    !.matching_set = IF IsMatch(node, row, d)
                                     THEN @ \cup {node.word} ELSE @,
                    !.stack = IF Promising(row, d) THEN rest \o ChildIds(st.nodes, id) ELSE rest,
                    !.trace = Append(@, id)]

InitialStack == <<Root>>

LoopStart(ns) ==
    [nodes |-> ns, stack |-> InitialStack, visited |-> {}, matching_set |-> {},
     trace |-> << >>, raised |-> FALSE]

RECURSIVE SearchLoop(_, _, _)
SearchLoop(st, q, d) ==
    IF st.stack = << >> \/ st.raised
    THEN st
    ELSE SearchLoop(LoopBody(st, Len(st.stack), q, d), q, d)

TrieFuzzySearch(ns, rawq, d) == SearchLoop(LoopStart(ns), Preprocess(rawq), d)

----------------------------------------------------------------------------------------------------------------------------------------------
(* The trie: Trie(), then inserts and searches, each a whole call *)

Init ==
    /\ nodes = EmptyTrie
    /\ inverted_index = << >>
    /\ documents = << >>
    /\ query = << >>
    /\ n = 0
    /\ stack = << >>
    /\ visited = {}
    /\ matching_set = {}
    /\ result = {}
    /\ raised = FALSE
    /\ pc = "idle"
    /\ trace = << >>
    /\ calls = 0
    /\ last_op = "init"
    /\ widened = FALSE
    /\ prev_result = {}
    /\ inserted = {}

Insert(word) ==
    /\ pc = "idle"
    /\ \E ns \in {TrieInsert(nodes, word)} :
           /\ Len(ns) <= MaxNodes
           /\ nodes' = ns
    /\ last_op' = "insert"
    /\ inserted' = inserted \cup {Preprocess(word)}
    /\ UNCHANGED <<inverted_index, documents, query, n, stack, visited,
                   matching_set, result, raised, pc, trace, calls,
                   widened, prev_result>>

\* history: is the call (rawq, d) the last search again, with n one larger
Widens(rawq, d) ==
    /\ last_op \in {"fuzzySearch", "Index.fuzzySearch"}
    /\ ~raised
    /\ Preprocess(rawq) = query
    /\ d = n + 1

FuzzySearch(rawq, d) ==
    /\ pc = "idle"
    /\ calls < MaxSearches
    /\ \E out \in {TrieFuzzySearch(nodes, rawq, d)} :
           /\ nodes' = out.nodes
           /\ stack' = out.stack
           /\ visited' = out.visited
           /\ matching_set' = out.matching_set
           /\ trace' = out.trace
           /\ raised' = out.raised
           /\ result' = IF out.raised THEN result ELSE out.matching_set
    /\ query' = Preprocess(rawq)
    /\ n' = d
    /\ calls' = calls + 1
    /\ last_op' = "fuzzySearch"
    /\ widened' = Widens(rawq, d)
    /\ prev_result' = IF Widens(rawq, d) THEN result ELSE {}
    /\ UNCHANGED <<inverted_index, documents, pc, inserted>>

Next ==
    \/ \E word \in RawWords : Insert(word)
    \/ \E rawq \in RawQueries, d \in Distances : FuzzySearch(rawq, d)

Spec == Init /\ [][Next]_vars

----------------------------------------------------------------------------
(* Trie.fuzzySearch one loop iteration at a time, the pending node taken  *)
(* from any position of the work collection (the code takes the last)     *)

Begin(rawq, d) ==
    /\ pc = "idle"
    /\ calls < MaxSearches
    /\ pc' = "search"
    /\ query' = Preprocess(rawq)
    /\ n' = d
    /\ \E st \in {LoopStart(nodes)} :
           /\ stack' = st.stack
           /\ visited' = st.visited
           /\ matching_set' = st.matching_set
           /\ trace' = st.trace
           /\ raised' = st.raised
    /\ calls' = calls + 1
    /\ last_op' = "fuzzySearch"
    /\ widened' = Widens(rawq, d)
    /\ prev_result' = IF Widens(rawq, d) THEN result ELSE {}
    /\ UNCHANGED <<nodes, inverted_index, documents, result, inserted>>

LoopState ==
    [nodes |-> nodes, stack |-> stack, visited |-> visited,
     matching_set |-> matching_set, trace |-> trace, raised |-> raised]

StepAny ==
    /\ pc = "search"
    /\ stack # << >>
    /\ ~raised
    /\ \E k \in DOMAIN stack :
         \E st \in {LoopBody(LoopState, k, query, n)} :
           /\ nodes' = st.nodes
           /\ stack' = st.stack
           /\ visited' = st.visited
           /\ matching_set' = st.matching_set
           /\ trace' = st.trace
           /\ raised' = st.raised
    /\ UNCHANGED <<inverted_index, documents, query, n, result, pc, calls,
                   last_op, widened, prev_result, inserted>>

End ==
    /\ pc = "search"
    /\ stack = << >> \/ raised
    /\ pc' = "idle"
    /\ result' = IF raised THEN result ELSE matching_set
    /\ UNCHANGED <<nodes, inverted_index, documents, query, n, stack, visited,
                   matching_set, raised, trace, calls, last_op, widened,
                   prev_result, inserted>>

NextAnyOrder ==
    \/ \E word \in RawWords : Insert(word)
    \/ \E rawq \in RawQueries, d \in Distances : Begin(rawq, d)
    \/ StepAny
    \/ End

SpecAnyOrder == Init /\ [][NextAnyOrder]_vars

----------------------------------------------------------------------------
(* Index *)

\* str.split(): the maximal runs of characters that are not whitespace
RECURSIVE SplitFrom(_, _, _)
SplitFrom(s, i, word) ==
    IF i > Len(s)
    THEN IF word = << >> THEN << >> ELSE <<word>>
    ELSE IF s[i] = Space
    THEN (IF word = << >> THEN << >> ELSE <<word>>) \o SplitFrom(s, i + 1, << >>)
    ELSE SplitFrom(s, i + 1, Append(word, s[i]))

Split(s) == SplitFrom(s, 1, << >>)

\* inverted_index[word], a defaultdict(lambda: set()): a missing key is
\* created with an empty set by the lookup
Lookup(idx, word) ==
    IF word \in DOMAIN idx THEN idx ELSE idx @@ (word :> {})

\* lines 68-69, for the words of one document from position i on
RECURSIVE IndexWords(_, _, _, _)
IndexWords(ix, words, i, doc) ==
    IF i > Len(words)
    THEN ix
    ELSE LET idx == Lookup(ix.inverted_index, words[i])
         IN  IndexWords([nodes |-> TrieInsert(ix.nodes, words[i]),
                         inverted_index |-> [idx EXCEPT ![words[i]] = @ \cup {doc}]],
                        words, i + 1, doc)

\* Index.__init__, for the documents from position i on
RECURSIVE IndexDocuments(_, _, _)
IndexDocuments(ix, docs, i) ==
    IF i > Len(docs)
    THEN ix
    ELSE IndexDocuments(IndexWords(ix, Split(Preprocess(docs[i])), 1, docs[i]),
                        docs, i + 1)

NewIndex(docs) ==
    IndexDocuments([nodes |-> EmptyTrie, inverted_index |-> << >>], docs, 1)

\* faulty variant: the documents of one matching word only are kept
RECURSIVE ExpandFirstOnly(_, _, _)
ExpandFirstOnly(idx, words, docs) ==
    IF words = {}
    THEN [inverted_index |-> idx, docs |-> docs]
    ELSE LET word == CHOOSE w \in words : TRUE
             idx2 == Lookup(idx, word)
         IN  [inverted_index |-> idx2, docs |-> idx2[word]]

\* the comprehension of Index.fuzzySearch, word after word
RECURSIVE Expand(_, _, _)
Expand(idx, words, docs) ==
    IF words = {}
    THEN [inverted_index |-> idx, docs |-> docs]
    ELSE LET word == CHOOSE w \in words : TRUE
             idx2 == Lookup(idx, word)
         IN  Expand(idx2, words \ {word}, docs \cup idx2[word])

\* the words Index.__init__ hands to Trie.insert
IndexedWords(docs) ==
    UNION {{Split(Preprocess(docs[i]))[j] : j \in DOMAIN Split(Preprocess(docs[i]))} :
              i \in DOMAIN docs}

InitIndex ==
    /\ documents \in DocumentLists
    /\ \E ix \in {NewIndex(documents)} :
           /\ nodes = ix.nodes
           /\ inverted_index = ix.inverted_index
    /\ query = << >>
    /\ n = 0
    /\ stack = << >>
    /\ visited = {}
    /\ matching_set = {}
    /\ result = {}
    /\ raised = FALSE
    /\ pc = "idle"
    /\ trace = << >>
    /\ calls = 0
    /\ last_op = "init"
    /\ widened = FALSE
    /\ prev_result = {}
    /\ inserted = {Preprocess(w) : w \in IndexedWords(documents)}

IndexFuzzySearch(rawq, d) ==
    /\ pc = "idle"
    /\ calls < MaxIndexSearches
    /\ \E out \in {TrieFuzzySearch(nodes, rawq, d)} :
           /\ nodes' = out.nodes
           /\ stack' = out.stack
           /\ visited' = out.visited
           /\ matching_set' = out.matching_set
           /\ trace' = out.trace
           /\ raised' = out.raised
           /\ \E ex \in {Expand(inverted_index, out.matching_set, {})} :
                 /\ inverted_index' = IF out.raised THEN inverted_index
                                      ELSE ex.inverted_index
                 /\ result' = IF out.raised THEN result ELSE ex.docs
    /\ query' = Preprocess(rawq)
    /\ n' = d
    /\ calls' = calls + 1
    /\ last_op' = "Index.fuzzySearch"
    /\ widened' = Widens(rawq, d)
    /\ prev_result' = IF Widens(rawq, d) THEN result ELSE {}
    /\ UNCHANGED <<documents, pc, inserted>>

NextIndex ==
    \E rawq \in IndexQueries, d \in Distances : IndexFuzzySearch(rawq, d)

SpecIndex == InitIndex /\ [][NextIndex]_vars

----------------------------------------------------------------------------
(* Helpers of the properties *)

Front(s) == SubSeq(s, 1, Len(s) - 1)

\* the Levenshtein distance of two texts, by its defining recurrence
RECURSIVE Levenshtein(_, _)
Levenshtein(a, b) ==
    IF a = << >> THEN Len(b)
    ELSE IF b = << >> THEN Len(a)
    ELSE IF a[Len(a)] = b[Len(b)] THEN Levenshtein(Front(a), Front(b))
    ELSE 1 + Min2(Levenshtein(Front(a), Front(b)),
                  Min2(Levenshtein(Front(a), b), Levenshtein(a, Front(b))))

RECURSIVE Depth(_, _)
Depth(ns, id) == IF ns[id].parent = 0 THEN 0 ELSE 1 + Depth(ns, ns[id].parent)

Range(s) == {s[i] : i \in DOMAIN s}

\* a trie without the cached rows
Structure(ns) ==
    [i \in DOMAIN ns |-> [word |-> ns[i].word, parent |-> ns[i].parent,
                          children |-> ns[i].children, is_word |-> ns[i].is_word]]

Searched == last_op \in {"fuzzySearch", "Index.fuzzySearch"}

----------------------------------------------------------------------------
(* C1: after a call of Trie.fuzzySearch(query, n) the value returned is   *)
(* exactly the set of inserted, preprocessed words whose Levenshtein       *)
(* distance to the preprocessed query is at most n.                        *)
C1_OracleEquivalence ==
    last_op = "fuzzySearch" =>
        /\ ~raised
        /\ result = {w \in inserted : Levenshtein(w, query) <= n}

\* a search with n = 1 that returns a word at distance 1, leaves out an
\* inserted word at distance 2 or more, and prunes a subtree
C1_Witness ==
    /\ last_op = "fuzzySearch"
    /\ n = 1
    /\ \E w \in result : Levenshtein(w, query) = 1
    /\ \E w \in inserted : Levenshtein(w, query) > 1
    /\ Len(trace) < Len(nodes)

(* C4: when a search repeats the query of the search right before it on   *)
(* the same trie with n one larger, it returns every word the earlier one  *)
(* returned.                                                               *)
C4_Monotone == widened => prev_result \subseteq result

\* the second search returns strictly more than a non-empty first result
C4_Witness ==
    /\ widened
    /\ last_op = "fuzzySearch"
    /\ prev_result # {}
    /\ prev_result # result
    /\ \E i \in DOMAIN nodes : nodes[i].dists # None

(* C7: inserting a word a second time changes nothing, and no insert       *)
(* replaces or alters the prefix, parent or child edges of a node that     *)
(* exists.                                                                 *)
C7_InsertIdempotent ==
    \A word \in RawWords :
        LET once == TrieInsert(nodes, word)
        IN  /\ TrieInsert(once, word) = once
            /\ Len(once) >= Len(nodes)
            /\ \A i \in DOMAIN nodes :
                   /\ once[i].word = nodes[i].word
                   /\ once[i].parent = nodes[i].parent
                   /\ Len(once[i].children) >= Len(nodes[i].children)
                   /\ SubSeq(once[i].children, 1, Len(nodes[i].children))
                          = nodes[i].children
                   /\ nodes[i].is_word => once[i].is_word

\* a word of two characters or more was inserted, another word shares its
\* path, and inserting it again is a step that leaves the trie as it is
C7_Witness ==
    /\ last_op = "insert"
    /\ Cardinality(inserted) >= 2
    /\ \E word \in RawWords :
           /\ Len(Preprocess(word)) >= 2
           /\ Preprocess(word) \in inserted
           /\ TrieInsert(nodes, word) = nodes

(* C8: in every call, a node other than the root has its row computed      *)
(* only after the row of its parent was computed in the same call, and no  *)
(* read of a parent's row fails.                                           *)
C8_ParentFirst ==
    /\ ~raised
    /\ \A k \in DOMAIN trace :
           nodes[trace[k]].parent # 0 =>
               \E j \in 1..(k - 1) : trace[j] = nodes[trace[k]].parent

\* a second call, with a query of another length than the rows the first
\* call left on nodes this call did not reach
C8_Witness ==
    /\ calls = 2
    /\ last_op = "fuzzySearch"
    /\ Len(trace) >= 3
    /\ \E i \in DOMAIN nodes :
           /\ i \notin Range(trace)
           /\ nodes[i].dists # None
           /\ Len(nodes[i].dists) # Len(query) + 1

(* C9: every row a call computes agrees with the true Levenshtein distance *)
(* wherever either is within n; the entries the window leaves at n + 1     *)
(* have a true distance above n; entry 0 is the depth of the node.         *)
C9_RowsAgree ==
    Searched =>
        \A id \in Range(trace) :
            LET row == nodes[id].dists
                len == Len(nodes[id].word)
            IN  /\ Len(row) = Len(query) + 1
                /\ row[1] = Depth(nodes, id)
                /\ \A j \in 0..Len(query) :
                       LET D == Levenshtein(nodes[id].word, SubSeq(query, 1, j))
                       IN  /\ (row[j + 1] <= n) <=> (D <= n)
                           /\ D <= n => row[j + 1] = D
                           /\ ( /\ j >= 1
                                /\ nodes[id].parent # 0
                                /\ \/ j - 1 < WindowLo(len, n)
                                   \/ j - 1 >= WindowHi(Len(query), len, n) )
                              => (row[j + 1] = n + 1 /\ D > n)

\* a row with an entry left at the sentinel below the window, one left at
\* it above the window, and an entry within n
C9_Witness ==
    /\ last_op = "fuzzySearch"
    /\ \E id \in Range(trace) :
           /\ nodes[id].parent # 0
           /\ \E j \in 1..Len(query) :
                  j - 1 < WindowLo(Len(nodes[id].word), n)
    /\ \E id \in Range(trace) :
           /\ nodes[id].parent # 0
           /\ \E j \in 1..Len(query) :
                  j - 1 >= WindowHi(Len(query), Len(nodes[id].word), n)
           /\ \E j \in 1..Len(query) : nodes[id].dists[j + 1] <= n

(* C10: within one call no node has its row computed twice.                *)
C10_ProcessedOnce ==
    \A i, j \in DOMAIN trace : trace[i] = trace[j] => i = j

\* a call that computed the rows of every node of a trie with two
\* children under one node
C10_Witness ==
    /\ last_op = "fuzzySearch"
    /\ Len(nodes) = MaxNodes
    /\ Len(trace) = Len(nodes)
    /\ \E i \in DOMAIN nodes : Len(nodes[i].children) >= 2

----------------------------------------------------------------------------
(* C5: when the loop of a call ends, whatever the order in which the       *)
(* pending nodes were taken, the matching set is the one the code's own    *)
(* order (the last pending node first) produces, and no read failed.       *)
C5_OrderIndependent ==
    pc = "search" =>
        /\ ~raised
        /\ stack = << >> =>
               matching_set = SearchLoop(LoopStart(nodes), query, n).matching_set

\* a finished loop that took the nodes in another order than the code
\* does, and found a word
C5_Witness ==
    /\ pc = "search"
    /\ stack = << >>
    /\ matching_set # {}
    /\ Len(trace) >= 3
    /\ trace # SearchLoop(LoopStart(nodes), query, n).trace

----------------------------------------------------------------------------
(* C2: Index.fuzzySearch(query, n) returns exactly the documents with a    *)
(* whitespace-separated word whose preprocessed form is within distance n  *)
(* of the preprocessed query.                                              *)
C2_DocumentsOfNearWords ==
    last_op = "Index.fuzzySearch" =>
        result = {documents[i] : i \in
                     {i \in DOMAIN documents :
                         \E w \in Range(Split(documents[i])) :
                             Levenshtein(Preprocess(w), query) <= n}}

(* C3: Index.fuzzySearch returns the union, over the words the search of   *)
(* the index's trie returned, of the documents the inverted index records  *)
(* for the word.                                                           *)
C3_UnionOfRecorded ==
    last_op = "Index.fuzzySearch" =>
        result = UNION {inverted_index[w] :
                           w \in matching_set \cap DOMAIN inverted_index}

\* two documents returned, one of them recorded for two of the words matched
C3_Witness ==
    /\ last_op = "Index.fuzzySearch"
    /\ Cardinality(result) = 2
    /\ \E w1, w2 \in matching_set \cap DOMAIN inverted_index :
           /\ w1 # w2
           /\ inverted_index[w1] \cap inverted_index[w2] # {}
           /\ inverted_index[w1] # inverted_index[w2]

(* C6: searches leave the trie, apart from the cached rows, and the        *)
(* inverted index as Index.__init__ built them.                            *)
C6_SearchesReadOnly ==
    /\ Structure(nodes) = Structure(NewIndex(documents).nodes)
    /\ inverted_index = NewIndex(documents).inverted_index

====
